---- MODULE Spec2Model ----
(***************************************************************************)
(* Scheduling core of the Dragonfly scheduler: the Task entity and its     *)
(* state machine (scheduler/entity/task.go), the CDN driver and its client *)
(* (scheduler/manager/cdn.go), and the task Config.                        *)
(*                                                                         *)
(* The module holds several specifications over one set of variables.     *)
(* Each specification exercises one part of the program and leaves the    *)
(* variables of the other parts parked at their constructed values:       *)
(*   SpecTaskFSM      the Task state machine and UpdateAt                  *)
(*   SpecBackToSource CanBackToSource and the callers that add themselves  *)
(*   SpecLoadOrStore  the per-task peer and piece maps                     *)
(*   SpecSizeScope    Task.SizeScope as a function of its two inputs       *)
(*   Spec             cdn.TriggerTask, statement by statement              *)
(*   SpecCancel       cdn.TriggerTask under a context that may be cancelled *)
(*   SpecDynconfig    cdnClient.OnNotify and the host table                *)
(*   SpecGC           the managers' RunGC sweep over tasks and peers       *)
(*   SpecConfig       the task Config: applyDefaults and Validate          *)
(***************************************************************************)
EXTENDS Integers, Sequences, FiniteSets, TLC

VARIABLES
    \* ---- Task state machine (task.go NewTask) ----
    taskState,          \* t.FSM.Current()
    updateAt,           \* t.UpdateAt
    createAt,           \* t.CreateAt
    now,                \* the reading time.Now() returns
    lastEvent,          \* the last t.FSM.Event call: what it was given and what it did
    \* ---- back-to-source ----
    backToSourceLimit,  \* t.BackToSourceLimit
    backToSourcePeers,  \* t.BackToSourcePeers
    btsPc,              \* per peer: where it is in check-then-add
    \* ---- per-task sync maps ----
    taskPeers,          \* t.Peers : peer id -> Peer instance
    taskPieces,         \* t.Pieces: piece number -> PieceInfo instance
    lsCall,             \* per caller of LoadOrStorePeer / LoadOrStorePiece: argument and return
    mapLog,             \* keys a Store or Delete has touched, per map
    \* ---- SizeScope ----
    contentLength,      \* t.ContentLength (<<>> is the nil pointer NewTask leaves)
    totalPieceCount,    \* t.TotalPieceCount (<<>> is the nil pointer NewTask leaves)
    scopeResult,        \* what the last SizeScope call returned
    \* ---- CDN driver ----
    taskID,             \* t.ID, a sequence of characters
    directPiece,        \* t.DirectPiece (<<>> is nil, <<b>> holds body b)
    peerManager,        \* c.peerManager: peer id -> Peer instance
    peerHeap,           \* the Peer objects NewPeer has allocated, by instance
    hostManager,        \* c.hostManager: host uuid -> Host
    cdnHosts,           \* c.client's dc.hosts: host uuid -> Host
    endpoint,           \* what the seeder's tiny-file HTTP endpoint answers for this task
    call,               \* per TriggerTask caller: its locals and position
    \* ---- CDN client and dynamic config ----
    cdnData,            \* dc.data, the DynconfigData the client caches
    updateState,        \* the calls of dc.UpdateState: how many, and the last addresses
    notify,             \* per caller of OnNotify: its argument and position
    \* ---- managers and their GC sweep ----
    gcTasks,            \* the task manager: task id -> the task's FSM state and UpdateAt
    gcPeers,            \* the peer manager as the sweep sees it: peer id -> state and UpdateAt
    gcSweep,            \* the last RunGC call: which manager, when, with which ExpireTime
    \* ---- task Config ----
    config,             \* the Config value at hand
    configLog           \* the Config as loaded, and the last call on it with input and output

fsmVars   == <<taskState, updateAt, createAt, now, lastEvent>>
btsVars   == <<backToSourceLimit, backToSourcePeers, btsPc>>
mapVars   == <<taskPeers, lsCall, mapLog>>
scopeVars == <<contentLength, totalPieceCount, scopeResult>>
cdnVars   == <<taskID, directPiece, peerManager, peerHeap, hostManager, cdnHosts, endpoint, call>>
dynVars   == <<cdnData, updateState, notify>>
gcVars    == <<gcTasks, gcPeers, gcSweep>>
cfgVars   == <<config, configLog>>
vars      == <<fsmVars, btsVars, mapVars, taskPieces, scopeVars, cdnVars, dynVars, gcVars, cfgVars>>

\* what the actions of one part leave alone
nonFsmVars   == <<btsVars, mapVars, taskPieces, scopeVars, cdnVars, dynVars, gcVars, cfgVars>>
nonBtsVars   == <<fsmVars, mapVars, taskPieces, scopeVars, cdnVars, dynVars, gcVars, cfgVars>>
nonMapVars   == <<fsmVars, btsVars, scopeVars, cdnVars, dynVars, gcVars, cfgVars>>
nonScopeVars == <<fsmVars, btsVars, mapVars, taskPieces, cdnVars, dynVars, gcVars, cfgVars>>
nonCdnVars   == <<fsmVars, btsVars, mapVars, scopeVars, dynVars, gcVars, cfgVars>>
nonDynVars   == <<fsmVars, btsVars, mapVars, taskPieces, scopeVars, gcVars, cfgVars>>
nonGcVars    == <<btsVars, mapVars, taskPieces, scopeVars, cdnVars, dynVars, cfgVars>>
nonCfgVars   == <<fsmVars, btsVars, mapVars, taskPieces, scopeVars, cdnVars, dynVars, gcVars>>

(***************************************************************************)
(* Bounds of the model.                                                    *)
(***************************************************************************)
\* the clock runs from 0 to MaxTime
MaxTime == 3
\* at most this many FSM events are fired on the task
MaxEvents == 4

(***************************************************************************)
(* Task state machine: task.go lines 36-59 and 120-139.                    *)
(***************************************************************************)
TinyFileSize == 128

TaskStatePending   == "Pending"
TaskStateRunning   == "Running"
TaskStateSucceeded == "Succeeded"
TaskStateFailed    == "Failed"

TaskEventDownload  == "Download"
TaskEventSucceeded == "Succeeded"
TaskEventFailed    == "Failed"

\* fsm.Events of NewTask. The Download transition lists TaskEventFailed, the
\* event constant, among its source states, as the source does.
TaskFSMEvents_NoRetry ==
    { [Name |-> TaskEventDownload,  Src |-> {TaskStatePending}, Dst |-> TaskStateRunning],
      [Name |-> TaskEventSucceeded, Src |-> {TaskStateRunning}, Dst |-> TaskStateSucceeded],
      [Name |-> TaskEventFailed,    Src |-> {TaskStateRunning}, Dst |-> TaskStateFailed] }

TaskFSMEvents_Resurrect ==
    { [Name |-> TaskEventDownload,  Src |-> {TaskStatePending, TaskEventFailed, TaskStateSucceeded},
                                    Dst |-> TaskStateRunning],
      [Name |-> TaskEventSucceeded, Src |-> {TaskStateRunning}, Dst |-> TaskStateSucceeded],
      [Name |-> TaskEventFailed,    Src |-> {TaskStateRunning}, Dst |-> TaskStateFailed] }

TaskFSMEvents_FailedAnywhere ==
    { [Name |-> TaskEventDownload,  Src |-> {TaskStatePending, TaskEventFailed}, Dst |-> TaskStateRunning],
      [Name |-> TaskEventSucceeded, Src |-> {TaskStateRunning}, Dst |-> TaskStateSucceeded],
      [Name |-> TaskEventFailed,    Src |-> {TaskStateRunning, TaskStatePending}, Dst |-> TaskStateFailed] }

TaskFSMEvents ==
    { [Name |-> TaskEventDownload,  Src |-> {TaskStatePending, TaskEventFailed}, Dst |-> TaskStateRunning],
      [Name |-> TaskEventSucceeded, Src |-> {TaskStateRunning}, Dst |-> TaskStateSucceeded],
      [Name |-> TaskEventFailed,    Src |-> {TaskStateRunning}, Dst |-> TaskStateFailed] }

\* the keys of fsm.Callbacks of NewTask; every one of them stores time.Now()
TaskFSMCallbacks_NoSucceeded == {TaskEventDownload, TaskEventFailed}

TaskFSMCallbacks == {TaskEventDownload, TaskEventSucceeded, TaskEventFailed}

\* looplab/fsm: the states of a machine are every Src and every Dst, its
\* events every Name.
FSMStates(events) == UNION {d.Src : d \in events} \cup {d.Dst : d \in events}

FSMEventNames(events) == {d.Name : d \in events}

\* looplab/fsm FSM.Event(event) in state current: the destination, or the
\* error. An event that no transition names is an UnknownEventError; an event
\* with no transition from the current state is an InvalidEventError; neither
\* changes the state nor runs a callback.
FSMEvent(events, current, event) ==
    LET hits == {d \in events : d.Name = event /\ current \in d.Src} IN
    IF hits # {}
      THEN [err |-> "none", dst |-> (CHOOSE d \in hits : TRUE).Dst]
      ELSE IF event \in FSMEventNames(events)
        THEN [err |-> "InvalidEventError", dst |-> current]
        ELSE [err |-> "UnknownEventError", dst |-> current]

\* looplab/fsm NewFSM: a callback key without a before_/leave_/enter_/after_
\* prefix is an enter_<state> callback when it names a state, and otherwise an
\* after_<event> callback when it names an event. Whether a callback of the
\* set `callbacks` runs in a successful transition by `event` into `dst`.
FSMCallbackRuns(events, callbacks, event, dst) ==
    \E key \in callbacks :
        IF key \in FSMStates(events)
          THEN dst = key
          ELSE key \in FSMEventNames(events) /\ event = key

\* the event names a caller may hand to t.FSM.Event: the three events and a
\* name that is no event of the task (a state name)
TaskEventInputs == {TaskEventDownload, TaskEventSucceeded, TaskEventFailed, TaskStateRunning}

NoEvent ==
    [n |-> 0, name |-> "none", src |-> TaskStatePending, dst |-> TaskStatePending,
     err |-> "none", uaBefore |-> 0, uaAfter |-> 0, at |-> 0]

\* NewTask: the machine starts in Pending; CreateAt and UpdateAt hold the
\* clock reading of construction.
TaskFSMInit ==
    /\ now = 0
    /\ taskState = TaskStatePending
    /\ createAt = 0
    /\ updateAt = 0
    /\ lastEvent = NoEvent

\* the clock moves on; two readings of time.Now() need not differ
Tick ==
    /\ now < MaxTime
    /\ now' = now + 1
    /\ UNCHANGED <<taskState, updateAt, createAt, lastEvent>>
    /\ UNCHANGED nonFsmVars

\* t.FSM.Event(event), with the callback of NewTask when the transition is made
TaskEvent(event) ==
    LET r   == FSMEvent(TaskFSMEvents, taskState, event)
        ran == r.err = "none" /\ FSMCallbackRuns(TaskFSMEvents, TaskFSMCallbacks, event, r.dst)
        ua  == IF ran THEN now ELSE updateAt
    IN  /\ lastEvent.n < MaxEvents
        /\ taskState' = r.dst
        /\ updateAt' = ua
        /\ lastEvent' = [n |-> lastEvent.n + 1, name |-> event, src |-> taskState, dst |-> r.dst,
                         err |-> r.err, uaBefore |-> updateAt, uaAfter |-> ua, at |-> now]
        /\ UNCHANGED <<now, createAt>>
        /\ UNCHANGED nonFsmVars

FireTaskEvent == \E event \in TaskEventInputs : TaskEvent(event)

(***************************************************************************)
(* Back-to-source: task.go lines 224-227, and the peers that call it.      *)
(***************************************************************************)
\* peers that may ask to go back to source
NumBtsPeers == 3
\* the largest BackToSourceLimit a task is constructed with
MaxLimit == 3

BtsPeers == 1..NumBtsPeers

\* NewTask takes any int32 as backToSourceLimit
BtsLimits == (-1)..MaxLimit

\* Task.CanBackToSource, on the set and the limit it loads
CanBackToSource_AtMost(peers, limit) == Cardinality(peers) <= limit

CanBackToSource(peers, limit) == Cardinality(peers) < limit

BackToSourceInit ==
    /\ backToSourceLimit \in BtsLimits
    /\ backToSourcePeers = {}
    /\ btsPc = [p \in BtsPeers |-> "idle"]

\* a peer calls task.CanBackToSource() and keeps the answer
CheckBackToSource(p) ==
    /\ btsPc[p] = "idle"
    /\ btsPc' = [btsPc EXCEPT ![p] =
                    IF CanBackToSource(backToSourcePeers, backToSourceLimit)
                      THEN "allowed" ELSE "denied"]
    /\ UNCHANGED <<backToSourceLimit, backToSourcePeers>>
    /\ UNCHANGED nonBtsVars

\* a peer that was answered true adds itself to task.BackToSourcePeers; the
\* check and the add are two calls, each atomic on its own
AddBackToSourcePeer(p) ==
    /\ btsPc[p] = "allowed"
    /\ backToSourcePeers' = backToSourcePeers \cup {p}
    /\ btsPc' = [btsPc EXCEPT ![p] = "added"]
    /\ UNCHANGED backToSourceLimit
    /\ UNCHANGED nonBtsVars

(***************************************************************************)
(* The per-task sync maps: task.go lines 144-209.                          *)
(***************************************************************************)
\* concurrent callers of LoadOrStorePeer / LoadOrStorePiece
NumCallers == 3
\* piece numbers run from 0 to MaxPieceNum
MaxPieceNum == 1

LsCallers == 1..NumCallers

PieceNums == 0..MaxPieceNum

PeerIDs == {"cdn-a", "cdn-b"}

EmptyMap == [k \in {} |-> k]

\* sync.Map.Store, Delete and LoadOrStore, each atomic
MapStore(m, k, v) == [x \in DOMAIN m \cup {k} |-> IF x = k THEN v ELSE m[x]]

MapDelete(m, k) == [x \in DOMAIN m \ {k} |-> m[x]]

MapLoadOrStore(m, k, v) ==
    IF k \in DOMAIN m
      THEN [m |-> m, actual |-> m[k], loaded |-> TRUE]
      ELSE [m |-> MapStore(m, k, v), actual |-> v, loaded |-> FALSE]

\* Task.LoadOrStorePeer(peer) on the map t.Peers
LoadOrStorePeer_AsStore(m, peer) ==
    [m |-> MapStore(m, peer.ID, peer), actual |-> peer, loaded |-> FALSE]

LoadOrStorePeer(m, peer) == MapLoadOrStore(m, peer.ID, peer)

\* Task.LoadOrStorePiece(piece) on the map t.Pieces
LoadOrStorePiece(m, piece) == MapLoadOrStore(m, piece.PieceNum, piece)

\* Task.StorePeer, Task.DeletePeer, Task.StorePiece, Task.DeletePiece
StorePeer(m, peer) == MapStore(m, peer.ID, peer)

DeletePeer(m, key) == MapDelete(m, key)

StorePiece(m, piece) == MapStore(m, piece.PieceNum, piece)

DeletePiece(m, key) == MapDelete(m, key)

\* Task.LenPeers walks the map
LenPeers(m) == Cardinality(DOMAIN m)

\* caller c holds an object of its own (ptr is the object's identity) and
\* its key; it has not called yet
LsReady(kind, key, c) ==
    [pc |-> "ready", kind |-> kind, arg |-> IF kind = "peer" THEN [ID |-> key, ptr |-> c]
                                                          ELSE [PieceNum |-> key, ptr |-> c],
     actual |-> [ptr |-> 0], loaded |-> FALSE]

LsKey(c) == IF lsCall[c].kind = "peer" THEN lsCall[c].arg.ID ELSE lsCall[c].arg.PieceNum

\* the map the callers of a run call on: t.Peers or t.Pieces
LsKind == lsCall[1].kind

LoadOrStoreInit ==
    /\ taskPeers = EmptyMap
    /\ taskPieces = EmptyMap
    /\ mapLog = [peer |-> {}, piece |-> {}]
    /\ \E kind \in {"peer", "piece"} :
         \E keys \in [LsCallers -> IF kind = "peer" THEN PeerIDs ELSE PieceNums] :
            lsCall = [c \in LsCallers |-> LsReady(kind, keys[c], c)]

\* one call of t.LoadOrStorePeer(peer) by caller c
CallLoadOrStorePeer(c) ==
    /\ lsCall[c].pc = "ready" /\ lsCall[c].kind = "peer"
    /\ LET r == LoadOrStorePeer(taskPeers, lsCall[c].arg) IN
        /\ taskPeers' = r.m
        /\ lsCall' = [lsCall EXCEPT ![c].pc = "done", ![c].actual = r.actual,
                                    ![c].loaded = r.loaded]
    /\ UNCHANGED <<taskPieces, mapLog>>
    /\ UNCHANGED nonMapVars

\* one call of t.LoadOrStorePiece(piece) by caller c
CallLoadOrStorePiece(c) ==
    /\ lsCall[c].pc = "ready" /\ lsCall[c].kind = "piece"
    /\ LET r == LoadOrStorePiece(taskPieces, lsCall[c].arg) IN
        /\ taskPieces' = r.m
        /\ lsCall' = [lsCall EXCEPT ![c].pc = "done", ![c].actual = r.actual,
                                    ![c].loaded = r.loaded]
    /\ UNCHANGED <<taskPeers, mapLog>>
    /\ UNCHANGED nonMapVars

\* another goroutine stores an object of its own (ptr 0) into the map the
\* callers use, or deletes a key of it
CallStorePeer(key) ==
    /\ LsKind = "peer"
    /\ taskPeers' = StorePeer(taskPeers, [ID |-> key, ptr |-> 0])
    /\ mapLog' = [mapLog EXCEPT !.peer = @ \cup {key}]
    /\ UNCHANGED <<taskPieces, lsCall>>
    /\ UNCHANGED nonMapVars

CallDeletePeer(key) ==
    /\ LsKind = "peer"
    /\ taskPeers' = DeletePeer(taskPeers, key)
    /\ mapLog' = [mapLog EXCEPT !.peer = @ \cup {key}]
    /\ UNCHANGED <<taskPieces, lsCall>>
    /\ UNCHANGED nonMapVars

CallStorePiece(key) ==
    /\ LsKind = "piece"
    /\ taskPieces' = StorePiece(taskPieces, [PieceNum |-> key, ptr |-> 0])
    /\ mapLog' = [mapLog EXCEPT !.piece = @ \cup {key}]
    /\ UNCHANGED <<taskPeers, lsCall>>
    /\ UNCHANGED nonMapVars

CallDeletePiece(key) ==
    /\ LsKind = "piece"
    /\ taskPieces' = DeletePiece(taskPieces, key)
    /\ mapLog' = [mapLog EXCEPT !.piece = @ \cup {key}]
    /\ UNCHANGED <<taskPeers, lsCall>>
    /\ UNCHANGED nonMapVars

(***************************************************************************)
(* Task.SizeScope: task.go lines 211-222.                                  *)
(***************************************************************************)
\* content lengths within this distance of TinyFileSize are tried
LengthMargin == 3
\* and the lengths from -1 to MaxSmallLength
MaxSmallLength == 1
\* piece counts run from 0 to MaxPieceCount
MaxPieceCount == 3

\* NewTask sets neither ContentLength nor TotalPieceCount: both are nil
\* pointers until a caller assigns them. <<>> is nil, <<v>> a pointer to v.
NilPtr == <<>>

Ptr(v) == <<v>>

Deref(p) == p[1]

ScopeLengths ==
    ((-1)..MaxSmallLength) \cup ((TinyFileSize - LengthMargin)..(TinyFileSize + LengthMargin))

ScopeCounts == 0..MaxPieceCount

\* Task.SizeScope on the two pointers it loads from; loading through a nil
\* pointer panics
SizeScope_Lt(cl, tpc) ==
    IF cl = NilPtr THEN "panic"
    ELSE IF Deref(cl) < TinyFileSize THEN "TINY"
    ELSE IF tpc = NilPtr THEN "panic"
    ELSE IF Deref(tpc) = 1 THEN "SMALL"
    ELSE "NORMAL"

SizeScope(cl, tpc) ==
    IF cl = NilPtr THEN "panic"
    ELSE IF Deref(cl) <= TinyFileSize THEN "TINY"
    ELSE IF tpc = NilPtr THEN "panic"
    ELSE IF Deref(tpc) = 1 THEN "SMALL"
    ELSE "NORMAL"

SizeScopeInit ==
    /\ contentLength \in {NilPtr} \cup {Ptr(v) : v \in ScopeLengths}
    /\ totalPieceCount \in {NilPtr} \cup {Ptr(v) : v \in ScopeCounts}
    /\ scopeResult = "none"

\* one call of t.SizeScope()
CallSizeScope ==
    /\ scopeResult' = SizeScope(contentLength, totalPieceCount)
    /\ UNCHANGED <<contentLength, totalPieceCount>>
    /\ UNCHANGED nonScopeVars

(***************************************************************************)
(* The CDN driver: cdn.go lines 72-207.                                    *)
(***************************************************************************)
\* a caller calls TriggerTask at most MaxCalls times, one call after another
MaxCalls == 2
\* a seeder stream yields at most MaxStreamPieces piece-events before its
\* terminal event or its error
MaxStreamPieces == 2

\* task IDs: one shorter than three characters, one longer
TaskIDs == { <<"t", "1">>, <<"t", "1", "a", "b">> }

\* host uuids a seeder may announce: "h1" is in the CDN client's host table
\* (and in the host manager once a peer was created on it), "ghost" in neither
HostUuids == {"h1", "ghost"}

\* the content lengths and piece counts a terminal event may carry
CdnLengths == {0, TinyFileSize, TinyFileSize + 1}

CdnCounts == {1, 2}

\* entity.NewHost, as far as the driver reads a host
Host(uuid) == [ID |-> uuid, IsCDN |-> TRUE]

\* the states of a peer and the events the driver fires on it. cdn.go hands
\* the constants PeerStateRunning and PeerStateFinished to peer.FSM.Event.
PeerStatePending  == "Pending"
PeerStateRunning  == "Running"
PeerStateFinished == "Finished"
PeerStateFailed   == "Failed"

PeerFSMEvents ==
    { [Name |-> PeerStateRunning,  Src |-> {PeerStatePending}, Dst |-> PeerStateRunning],
      [Name |-> PeerStateFinished, Src |-> {PeerStateRunning}, Dst |-> PeerStateFinished],
      [Name |-> PeerStateFailed,   Src |-> {PeerStateRunning}, Dst |-> PeerStateFailed] }

\* entity.NewPeer(id, task, host): a peer in Pending that has no piece
NewPeer(id, host) ==
    [ID |-> id, Host |-> host, state |-> PeerStatePending, Pieces |-> {}, PieceCosts |-> <<>>]

\* a bodiless PieceSeed, the zero value of the local `piece`
NoPiece ==
    [PeerId |-> "", HostUuid |-> "", Done |-> FALSE, ContentLength |-> 0,
     TotalPieceCount |-> 0, PieceInfo |-> [PieceNum |-> 0, ptr |-> 0]]

NoResult == <<>>

\* the locals of a TriggerTask call that has not started; ctx is the context
\* the caller passes, live until the caller cancels it
IdleCall ==
    [n |-> 0, pc |-> "idle", initialized |-> FALSE, peer |-> 0, host |-> "",
     piece |-> NoPiece, nrecv |-> 0, url |-> <<>>, data |-> <<>>,
     err |-> "none", retPeer |-> 0, result |-> NoResult,
     pre |-> [pieces |-> {}, peers |-> {}, hosts |-> {}, directPiece |-> <<>>],
     recvNums |-> {}, ctx |-> "live"]

\* the events the stream of caller c may yield next: the seeder's peer id and
\* host uuid are chosen with the first event and kept
StreamIds(c) ==
    IF call[c].nrecv = 0
      THEN {[PeerId |-> p, HostUuid |-> h] : p \in PeerIDs, h \in HostUuids}
      ELSE {[PeerId |-> call[c].piece.PeerId, HostUuid |-> call[c].piece.HostUuid]}

\* the identity of the PieceInfo object of an event: the objects of two calls
\* differ, and so do the objects of two events of a call for one piece number
PiecePtr(c, num) == 2 * call[c].n + (IF num \in call[c].recvNums THEN 1 ELSE 0)

PieceEvents(c) ==
    IF Cardinality(call[c].recvNums) >= MaxStreamPieces \/ call[c].nrecv >= MaxStreamPieces
      THEN {}
      ELSE {[PeerId |-> i.PeerId, HostUuid |-> i.HostUuid, Done |-> FALSE, ContentLength |-> 0,
             TotalPieceCount |-> 0,
             PieceInfo |-> [PieceNum |-> num, ptr |-> PiecePtr(c, num)]] :
               i \in StreamIds(c), num \in PieceNums}

DoneEvents(c) ==
    {[PeerId |-> i.PeerId, HostUuid |-> i.HostUuid, Done |-> TRUE, ContentLength |-> len,
      TotalPieceCount |-> cnt, PieceInfo |-> [PieceNum |-> 0, ptr |-> 0]] :
        i \in StreamIds(c), len \in CdnLengths, cnt \in CdnCounts}

\* the tiny-file endpoint of a seeder that has not finished the task (a new
\* stream starts from there)
NoAnswer == [kind |-> "error", len |-> 0]

\* what the tiny-file endpoint may answer for a task of content length len:
\* a failure of the GET, or a body that is short, exact or long
EndpointAnswers(len) ==
    {[kind |-> "error", len |-> 0]}
      \cup {[kind |-> "body", len |-> n] : n \in {len - 1, len, len + 1} \cap Nat}

\* piece.ContentLength <= entity.TinyFileSize (cdn.go line 119)
IsTinyPiece_Always(piece) == TRUE

IsTinyPiece(piece) == piece.ContentLength <= TinyFileSize

\* len(data) != int(piece.ContentLength) (cdn.go line 127)
TinyLengthDiffers_OnlyLonger(data, piece) == data.len > piece.ContentLength

TinyLengthDiffers(data, piece) == data.len # piece.ContentLength

\* the PeerResult TriggerTask returns (cdn.go lines 138-141)
PeerResult(piece) ==
    [TotalPieceCount |-> piece.TotalPieceCount, ContentLength |-> piece.ContentLength]

\* the url of downloadTinyFile (cdn.go lines 191-196); task.ID[:3] panics on
\* an ID shorter than three characters
TinyFileURLPanics(id) == Len(id) < 3

TinyFileURL(id, host) ==
    [Scheme |-> "http", Host |-> host, Path |-> <<"download", SubSeq(id, 1, 3), id>>,
     RawQuery |-> "peerId=scheduler"]

\* cdnClient.LoadHost(key) on the host table dc.hosts (cdn.go lines 262-272)
LoadHost_NoMiss(hosts, key) ==
    [host |-> <<[ID |-> key, IsCDN |-> TRUE]>>, ok |-> TRUE]

LoadHost(hosts, key) ==
    IF key \in DOMAIN hosts
      THEN [host |-> <<hosts[key]>>, ok |-> TRUE]
      ELSE [host |-> <<>>, ok |-> FALSE]

\* `return peer, result, err` of TriggerTask in caller c
Return(c, peer, result, err) ==
    [call EXCEPT ![c].pc = "returned", ![c].retPeer = peer, ![c].result = result,
                 ![c].err = err]

CdnInit ==
    /\ taskID \in TaskIDs
    /\ directPiece = <<>>
    /\ peerManager = EmptyMap
    /\ peerHeap = EmptyMap
    /\ hostManager = EmptyMap
    /\ cdnHosts = [u \in {"h1"} |-> Host(u)]
    /\ endpoint = NoAnswer
    /\ taskPieces = EmptyMap
    /\ call = [c \in {1} |-> IdleCall]

\* TriggerTask is called and opens the stream: c.client.ObtainSeeds
\* (cdn.go lines 74-86), which may fail
ObtainSeeds(c) ==
    /\ call[c].pc \in {"idle", "returned"}
    /\ call[c].n < MaxCalls
    /\ LET fresh == [IdleCall EXCEPT !.n = call[c].n + 1,
                        !.pre = [pieces |-> DOMAIN taskPieces, peers |-> DOMAIN peerManager,
                                 hosts |-> DOMAIN hostManager, directPiece |-> directPiece]]
       IN  \/ call' = [call EXCEPT ![c] = [fresh EXCEPT !.pc = "recv"]]
           \/ call' = [call EXCEPT ![c] = [fresh EXCEPT !.pc = "returned",
                                                        !.err = "ObtainSeedsFailed"]]
    /\ endpoint' = NoAnswer
    /\ UNCHANGED <<taskID, directPiece, peerManager, peerHeap, hostManager, cdnHosts, taskPieces>>
    /\ UNCHANGED nonCdnVars

\* stream.Recv() fails (cdn.go lines 90-93)
RecvError_Retries(c) ==
    /\ call[c].pc = "recv"
    /\ call[c].err = "none"
    /\ call' = [call EXCEPT ![c].err = "StreamRecvFailed"]
    /\ UNCHANGED <<taskID, directPiece, peerManager, peerHeap, hostManager, cdnHosts,
                   endpoint, taskPieces>>
    /\ UNCHANGED nonCdnVars

RecvError(c) ==
    /\ call[c].pc = "recv"
    /\ call' = Return(c, 0, NoResult, "StreamRecvFailed")
    /\ UNCHANGED <<taskID, directPiece, peerManager, peerHeap, hostManager, cdnHosts,
                   endpoint, taskPieces>>
    /\ UNCHANGED nonCdnVars

\* where the loop body goes once the peer is initialized (cdn.go lines 112, 145)
AfterInit(piece) == IF piece.Done THEN "finish" ELSE "setBit"

\* stream.Recv() yields a piece-event (cdn.go lines 90-99). With a terminal
\* event of a tiny task the seeder has the file, and its endpoint an answer.
RecvPiece(c) ==
    /\ call[c].pc = "recv"
    /\ \E ev \in PieceEvents(c) \cup DoneEvents(c) :
        /\ call' = [call EXCEPT ![c].piece = ev,
                                ![c].nrecv = @ + 1,
                                ![c].recvNums = IF ev.Done THEN @ ELSE @ \cup {ev.PieceInfo.PieceNum},
                                ![c].initialized = TRUE,
                                ![c].pc = IF call[c].initialized THEN AfterInit(ev) ELSE "initLoad"]
        /\ IF ev.Done /\ ev.ContentLength <= TinyFileSize
             THEN endpoint' \in EndpointAnswers(ev.ContentLength)
             ELSE endpoint' = endpoint
    /\ UNCHANGED <<taskID, directPiece, peerManager, peerHeap, hostManager, cdnHosts, taskPieces>>
    /\ UNCHANGED nonCdnVars

\* initPeer: c.peerManager.Load(ps.PeerId) (cdn.go lines 160-164)
InitPeerLoad_AlwaysNew(c) ==
    /\ call[c].pc = "initLoad"
    /\ call' = [call EXCEPT ![c].pc = "initHost"]
    /\ UNCHANGED <<taskID, directPiece, peerManager, peerHeap, hostManager, cdnHosts,
                   endpoint, taskPieces>>
    /\ UNCHANGED nonCdnVars

InitPeerLoad(c) ==
    /\ call[c].pc = "initLoad"
    /\ call' = IF call[c].piece.PeerId \in DOMAIN peerManager
                 THEN [call EXCEPT ![c].peer = peerManager[call[c].piece.PeerId], ![c].pc = "run"]
                 ELSE [call EXCEPT ![c].pc = "initHost"]
    /\ UNCHANGED <<taskID, directPiece, peerManager, peerHeap, hostManager, cdnHosts,
                   endpoint, taskPieces>>
    /\ UNCHANGED nonCdnVars

\* initPeer: the host manager first, then the CDN client's table, whose host
\* is stored into the host manager (cdn.go lines 166-176)
InitPeerHost_ClientFirst(c) ==
    /\ call[c].pc = "initHost"
    /\ LET uuid == call[c].piece.HostUuid
           r    == LoadHost(cdnHosts, uuid)
       IN  IF r.ok
             THEN /\ hostManager' = MapStore(hostManager, r.host[1].ID, r.host[1])
                  /\ call' = [call EXCEPT ![c].host = r.host[1].ID, ![c].pc = "initStore"]
             ELSE IF uuid \in DOMAIN hostManager
               THEN /\ call' = [call EXCEPT ![c].host = hostManager[uuid].ID,
                                            ![c].pc = "initStore"]
                    /\ UNCHANGED hostManager
               ELSE /\ call' = Return(c, 0, NoResult, "HostNotFound")
                    /\ UNCHANGED hostManager
    /\ UNCHANGED <<taskID, directPiece, peerManager, peerHeap, cdnHosts, endpoint, taskPieces>>
    /\ UNCHANGED nonCdnVars

InitPeerHost(c) ==
    /\ call[c].pc = "initHost"
    /\ LET uuid == call[c].piece.HostUuid IN
        IF uuid \in DOMAIN hostManager
          THEN /\ call' = [call EXCEPT ![c].host = hostManager[uuid].ID, ![c].pc = "initStore"]
               /\ UNCHANGED hostManager
          ELSE LET r == LoadHost(cdnHosts, uuid) IN
            IF r.ok
              THEN /\ hostManager' = MapStore(hostManager, r.host[1].ID, r.host[1])
                   /\ call' = [call EXCEPT ![c].host = r.host[1].ID, ![c].pc = "initStore"]
              ELSE /\ call' = Return(c, 0, NoResult, "HostNotFound")
                   /\ UNCHANGED hostManager
    /\ UNCHANGED <<taskID, directPiece, peerManager, peerHeap, cdnHosts, endpoint, taskPieces>>
    /\ UNCHANGED nonCdnVars

\* initPeer: entity.NewPeer and c.peerManager.Store (cdn.go lines 178-185)
InitPeerStore(c) ==
    /\ call[c].pc = "initStore"
    /\ LET inst == Cardinality(DOMAIN peerHeap) + 1 IN
        /\ peerHeap' = MapStore(peerHeap, inst, NewPeer(call[c].piece.PeerId, call[c].host))
        /\ peerManager' = MapStore(peerManager, call[c].piece.PeerId, inst)
        /\ call' = [call EXCEPT ![c].peer = inst, ![c].pc = "run"]
    /\ UNCHANGED <<taskID, directPiece, hostManager, cdnHosts, endpoint, taskPieces>>
    /\ UNCHANGED nonCdnVars

\* peer.FSM.Event(entity.PeerStateRunning) (cdn.go lines 106-108)
RunPeer(c) ==
    /\ call[c].pc = "run"
    /\ LET r == FSMEvent(PeerFSMEvents, peerHeap[call[c].peer].state, PeerStateRunning) IN
        IF r.err # "none"
          THEN /\ call' = Return(c, 0, NoResult, "IllegalPeerState")
               /\ UNCHANGED peerHeap
          ELSE /\ peerHeap' = [peerHeap EXCEPT ![call[c].peer].state = r.dst]
               /\ call' = [call EXCEPT ![c].pc = AfterInit(call[c].piece)]
    /\ UNCHANGED <<taskID, directPiece, peerManager, hostManager, cdnHosts, endpoint, taskPieces>>
    /\ UNCHANGED nonCdnVars

\* the terminal event: peer.FSM.Event(entity.PeerStateFinished), and the
\* return of a task that is not tiny (cdn.go lines 112-119, 138-141)
FinishPeer_TaskSucceeded(c) ==
    /\ call[c].pc = "finish"
    /\ LET r == FSMEvent(PeerFSMEvents, peerHeap[call[c].peer].state, PeerStateFinished) IN
        IF r.err # "none"
          THEN /\ call' = Return(c, 0, NoResult, "IllegalPeerState")
               /\ UNCHANGED <<peerHeap, taskState>>
          ELSE /\ peerHeap' = [peerHeap EXCEPT ![call[c].peer].state = r.dst]
               /\ taskState' = FSMEvent(TaskFSMEvents, taskState, TaskEventSucceeded).dst
               /\ call' = IF IsTinyPiece(call[c].piece)
                            THEN [call EXCEPT ![c].pc = "tiny"]
                            ELSE Return(c, call[c].peer, <<PeerResult(call[c].piece)>>, "none")
    /\ UNCHANGED <<taskID, directPiece, peerManager, hostManager, cdnHosts, endpoint, taskPieces>>
    /\ UNCHANGED <<updateAt, createAt, now, lastEvent>>
    /\ UNCHANGED <<btsVars, mapVars, scopeVars, dynVars, gcVars, cfgVars>>

FinishPeer_StoresLengths(c) ==
    /\ call[c].pc = "finish"
    /\ LET r == FSMEvent(PeerFSMEvents, peerHeap[call[c].peer].state, PeerStateFinished) IN
        IF r.err # "none"
          THEN /\ call' = Return(c, 0, NoResult, "IllegalPeerState")
               /\ UNCHANGED <<peerHeap, contentLength, totalPieceCount>>
          ELSE /\ peerHeap' = [peerHeap EXCEPT ![call[c].peer].state = r.dst]
               /\ contentLength' = Ptr(call[c].piece.ContentLength)
               /\ totalPieceCount' = Ptr(call[c].piece.TotalPieceCount)
               /\ call' = IF IsTinyPiece(call[c].piece)
                            THEN [call EXCEPT ![c].pc = "tiny"]
                            ELSE Return(c, call[c].peer, <<PeerResult(call[c].piece)>>, "none")
    /\ UNCHANGED <<taskID, directPiece, peerManager, hostManager, cdnHosts, endpoint, taskPieces>>
    /\ UNCHANGED scopeResult
    /\ UNCHANGED <<fsmVars, btsVars, mapVars, dynVars, gcVars, cfgVars>>

FinishPeer(c) ==
    /\ call[c].pc = "finish"
    /\ LET r == FSMEvent(PeerFSMEvents, peerHeap[call[c].peer].state, PeerStateFinished) IN
        IF r.err # "none"
          THEN /\ call' = Return(c, 0, NoResult, "IllegalPeerState")
               /\ UNCHANGED peerHeap
          ELSE /\ peerHeap' = [peerHeap EXCEPT ![call[c].peer].state = r.dst]
               /\ call' = IF IsTinyPiece(call[c].piece)
                            THEN [call EXCEPT ![c].pc = "tiny"]
                            ELSE Return(c, call[c].peer, <<PeerResult(call[c].piece)>>, "none")
    /\ UNCHANGED <<taskID, directPiece, peerManager, hostManager, cdnHosts, endpoint, taskPieces>>
    /\ UNCHANGED nonCdnVars

\* the tiny-file fast path: downloadTinyFile, the length check and the store
\* into task.DirectPiece (cdn.go lines 119-141, 189-207). downloadTinyFile
\* takes ctx and makes the request with http.Get(url.String()), which carries
\* no context: the outcome does not depend on call[c].ctx.
DownloadTinyFile(c) ==
    /\ call[c].pc = "tiny"
    /\ IF TinyFileURLPanics(taskID)
         THEN /\ call' = [call EXCEPT ![c].pc = "panicked"]
              /\ UNCHANGED directPiece
         ELSE LET url == TinyFileURL(taskID, peerHeap[call[c].peer].Host) IN
              IF endpoint.kind = "error"
                THEN /\ call' = [Return(c, 0, NoResult, "TinyFileFetchFailed") EXCEPT ![c].url = <<url>>]
                     /\ UNCHANGED directPiece
                ELSE IF TinyLengthDiffers(endpoint, call[c].piece)
                  THEN /\ call' = [Return(c, 0, NoResult, "TinyFileLengthMismatch")
                                      EXCEPT ![c].url = <<url>>, ![c].data = <<endpoint>>]
                       /\ UNCHANGED directPiece
                  ELSE /\ directPiece' = <<endpoint>>
                       /\ call' = [Return(c, call[c].peer, <<PeerResult(call[c].piece)>>, "none")
                                      EXCEPT ![c].url = <<url>>, ![c].data = <<endpoint>>]
    /\ UNCHANGED <<taskID, peerManager, peerHeap, hostManager, cdnHosts, endpoint, taskPieces>>
    /\ UNCHANGED nonCdnVars

\* the caller of TriggerTask cancels the context it passed, once the terminal
\* event is in and before the tiny-file GET is made. (Before that a cancelled
\* context shows as a failing stream.Recv, which RecvError covers.)
CancelContext(c) ==
    /\ call[c].pc \in {"finish", "tiny"}
    /\ call[c].ctx = "live"
    /\ call' = [call EXCEPT ![c].ctx = "cancelled"]
    /\ UNCHANGED <<taskID, directPiece, peerManager, peerHeap, hostManager, cdnHosts,
                   endpoint, taskPieces>>
    /\ UNCHANGED nonCdnVars

\* a piece: peer.Pieces.Set and peer.PieceCosts.Add(0) (cdn.go lines 145-147)
SetPieceBit(c) ==
    /\ call[c].pc = "setBit"
    /\ peerHeap' = [peerHeap EXCEPT ![call[c].peer].Pieces = @ \cup {call[c].piece.PieceInfo.PieceNum},
                                    ![call[c].peer].PieceCosts = Append(@, 0)]
    /\ call' = [call EXCEPT ![c].pc = "storePiece"]
    /\ UNCHANGED <<taskID, directPiece, peerManager, hostManager, cdnHosts, endpoint, taskPieces>>
    /\ UNCHANGED nonCdnVars

\* a piece: task.StorePiece(piece.PieceInfo), and back to Recv (cdn.go line 148)
StorePieceInfo(c) ==
    /\ call[c].pc = "storePiece"
    /\ taskPieces' = StorePiece(taskPieces, call[c].piece.PieceInfo)
    /\ call' = [call EXCEPT ![c].pc = "recv"]
    /\ UNCHANGED <<taskID, directPiece, peerManager, peerHeap, hostManager, cdnHosts, endpoint>>
    /\ UNCHANGED nonCdnVars

(***************************************************************************)
(* The CDN client and the dynamic config: cdn.go lines 225-329.            *)
(***************************************************************************)
\* a CDN list of the dynamic config holds at most MaxCdnListLen CDNs
MaxCdnListLen == 2
\* a caller of OnNotify is notified at most MaxNotifies times
MaxNotifies == 2

\* the CDNs a dynamic config may list: config.CDN, as far as cdn.go reads it
CdnA == [HostName |-> "a", Port |-> 8001, IP |-> "10.0.0.1"]

CdnB == [HostName |-> "b", Port |-> 8001, IP |-> "10.0.0.2"]

CdnC == [HostName |-> "c", Port |-> 8001, IP |-> "10.0.0.3"]

CDNs == {CdnA, CdnB, CdnC}

CdnLists == UNION {[1..n -> CDNs] : n \in 0..MaxCdnListLen}

\* config.DynconfigData, as far as cdn.go reads it
DynconfigData(cdns) == [CDNs |-> cdns]

\* idgen.CDNHostID(hostName, port): the id is made of the two, and of nothing else
CDNHostID(hostName, port) == <<hostName, port>>

\* entity.NewHost of cdnsToHosts (cdn.go lines 302-313)
CDNHost(cdn) == [ID |-> CDNHostID(cdn.HostName, cdn.Port), IsCDN |-> TRUE, IP |-> cdn.IP]

\* cdnsToHosts: one entry per id; a later CDN of the list overwrites an
\* earlier one of the same id
cdnsToHosts(cdns) ==
    LET idOf(i) == CDNHostID(cdns[i].HostName, cdns[i].Port)
        last(id) == CHOOSE i \in 1..Len(cdns) :
                        /\ idOf(i) = id
                        /\ \A j \in (i + 1)..Len(cdns) : idOf(j) # id
    IN  [id \in {idOf(i) : i \in 1..Len(cdns)} |-> CDNHost(cdns[last(id)])]

\* cdnsToNetAddrs: one address per CDN, in the order of the list
cdnsToNetAddrs(cdns) ==
    [i \in 1..Len(cdns) |-> [Type |-> "tcp", Addr |-> <<cdns[i].IP, cdns[i].Port>>]]

\* reflect.DeepEqual(dc.data, data) on the two DynconfigData
DeepEqual_ByLength(a, b) == Len(a.CDNs) = Len(b.CDNs)

DeepEqual(a, b) == a = b

NoUpdateState == [count |-> 0, addrs |-> <<>>]

\* a caller of OnNotify that has not been notified; calls counts the
\* UpdateState calls of its current OnNotify
IdleNotify ==
    [n |-> 0, pc |-> "idle", data |-> DynconfigData(<<>>), equal |-> FALSE, calls |-> 0]

\* newCDNClient: the data of dynConfig.Get() and the hosts derived from it
DynconfigInit ==
    /\ \E cdns \in CdnLists :
        /\ cdnData = DynconfigData(cdns)
        /\ cdnHosts = cdnsToHosts(cdns)
    /\ updateState = NoUpdateState
    /\ notify = [k \in {1} |-> IdleNotify]

\* OnNotify(data) up to dc.mu.Lock(): the DeepEqual test, made before the
\* lock is asked for, and the return when it holds (cdn.go lines 275-282)
OnNotify(k) ==
    /\ notify[k].pc \in {"idle", "done"}
    /\ notify[k].n < MaxNotifies
    /\ \E cdns \in CdnLists :
        LET data == DynconfigData(cdns)
            eq   == DeepEqual(cdnData, data)
        IN  notify' = [notify EXCEPT ![k] = [n |-> notify[k].n + 1,
                                            pc |-> IF eq THEN "done" ELSE "lock",
                                            data |-> data, equal |-> eq, calls |-> 0]]
    /\ UNCHANGED <<cdnData, updateState, cdnHosts>>
    /\ UNCHANGED <<taskID, directPiece, peerManager, peerHeap, hostManager, endpoint, call>>
    /\ UNCHANGED nonDynVars

\* OnNotify under dc.mu: the data, the host table and UpdateState
\* (cdn.go lines 282-288)
OnNotifyLocked(k) ==
    /\ notify[k].pc = "lock"
    /\ cdnData' = notify[k].data
    /\ cdnHosts' = cdnsToHosts(notify[k].data.CDNs)
    /\ updateState' = [count |-> updateState.count + 1,
                       addrs |-> cdnsToNetAddrs(notify[k].data.CDNs)]
    /\ notify' = [notify EXCEPT ![k].pc = "done", ![k].calls = @ + 1]
    /\ UNCHANGED <<taskID, directPiece, peerManager, peerHeap, hostManager, endpoint, call>>
    /\ UNCHANGED nonDynVars

(***************************************************************************)
(* The managers and RunGC. The task FSM and its UpdateAt are those of      *)
(* task.go; the managers, the peer's UpdateAt and RunGC follow the         *)
(* managers' description: RunGC(ExpireTime, now) deletes the entries whose *)
(* UpdateAt + ExpireTime < now and whose FSM is in a terminal state.       *)
(***************************************************************************)
\* ExpireTime runs from 1 to MaxExpire clock units
MaxExpire == 2
\* at most this many sweeps are run
MaxSweeps == 2

GcTaskIDs == {"t1", "t2"}

GcPeerIDs == {"p1"}

\* the terminal states of each kind of entity
TaskTerminalStates == {TaskStateSucceeded, TaskStateFailed}

PeerTerminalStates == {PeerStateFinished, PeerStateFailed}

\* whether the sweep deletes an entity
Reaped_AnyState(entity, terminal, expire, t) == entity.UpdateAt + expire < t

Reaped(entity, terminal, expire, t) ==
    /\ entity.state \in terminal
    /\ entity.UpdateAt + expire < t

\* RunGC on a manager: walk the entries, delete the reaped ones
RunGC(manager, terminal, expire, t) ==
    [id \in {i \in DOMAIN manager : ~Reaped(manager[i], terminal, expire, t)} |-> manager[id]]

\* the managers hold entities constructed at time 0; ExpireTime is set once
GCInit ==
    /\ gcTasks = [id \in GcTaskIDs |-> [state |-> TaskStatePending, UpdateAt |-> 0]]
    /\ gcPeers = [id \in GcPeerIDs |-> [state |-> PeerStatePending, UpdateAt |-> 0]]
    /\ \E expire \in 1..MaxExpire : gcSweep = [n |-> 0, kind |-> "none", expire |-> expire]

\* task.FSM.Event(event) on a task of the manager, with the callback of NewTask
GcTaskEvent(id, event) ==
    /\ id \in DOMAIN gcTasks
    /\ LET r   == FSMEvent(TaskFSMEvents, gcTasks[id].state, event)
           ran == FSMCallbackRuns(TaskFSMEvents, TaskFSMCallbacks, event, r.dst)
       IN  /\ r.err = "none"
           /\ gcTasks' = [gcTasks EXCEPT ![id] =
                            [state |-> r.dst, UpdateAt |-> IF ran THEN now ELSE @.UpdateAt]]
    /\ UNCHANGED <<gcPeers, gcSweep>>
    /\ UNCHANGED <<fsmVars, nonGcVars>>

\* peer.FSM.Event(event) on a peer of the manager; a transition stores the time
GcPeerEvent(id, event) ==
    /\ id \in DOMAIN gcPeers
    /\ LET r == FSMEvent(PeerFSMEvents, gcPeers[id].state, event) IN
        /\ r.err = "none"
        /\ gcPeers' = [gcPeers EXCEPT ![id] = [state |-> r.dst, UpdateAt |-> now]]
    /\ UNCHANGED <<gcTasks, gcSweep>>
    /\ UNCHANGED <<fsmVars, nonGcVars>>

\* the task GC worker runs its sweep at the current time
RunGCTasks ==
    /\ gcSweep.n < MaxSweeps
    /\ gcTasks' = RunGC(gcTasks, TaskTerminalStates, gcSweep.expire, now)
    /\ gcSweep' = [gcSweep EXCEPT !.n = @ + 1, !.kind = "task"]
    /\ UNCHANGED gcPeers
    /\ UNCHANGED <<fsmVars, nonGcVars>>

\* the peer GC worker runs its sweep at the current time
RunGCPeers ==
    /\ gcSweep.n < MaxSweeps
    /\ gcPeers' = RunGC(gcPeers, PeerTerminalStates, gcSweep.expire, now)
    /\ gcSweep' = [gcSweep EXCEPT !.n = @ + 1, !.kind = "peer"]
    /\ UNCHANGED gcTasks
    /\ UNCHANGED <<fsmVars, nonGcVars>>

(***************************************************************************)
(* The task Config: part_000 lines 24-98. Durations are counted in         *)
(* seconds; the code tests only their sign and whether they are zero.      *)
(***************************************************************************)
\* durations from -MaxDuration to MaxDuration are tried, and each default
MaxDuration == 1

DefaultFailAccessInterval == 180

DefaultGCInitialDelay == 6

DefaultGCMetaInterval == 120

DefaultExpireTime == 1800

Durations(default) == ((-MaxDuration)..MaxDuration) \cup {default}

Configs ==
    { [GCInitialDelay |-> a, GCMetaInterval |-> b, ExpireTime |-> c, FailAccessInterval |-> d] :
        a \in Durations(DefaultGCInitialDelay), b \in Durations(DefaultGCMetaInterval),
        c \in Durations(DefaultExpireTime), d \in Durations(DefaultFailAccessInterval) }

\* Config.applyDefaults
applyDefaults_NonPositive(c) ==
    [GCInitialDelay     |-> IF c.GCInitialDelay <= 0 THEN DefaultGCInitialDelay
                                                     ELSE c.GCInitialDelay,
     GCMetaInterval     |-> IF c.GCMetaInterval <= 0 THEN DefaultGCMetaInterval
                                                     ELSE c.GCMetaInterval,
     ExpireTime         |-> IF c.ExpireTime <= 0 THEN DefaultExpireTime ELSE c.ExpireTime,
     FailAccessInterval |-> IF c.FailAccessInterval <= 0 THEN DefaultFailAccessInterval
                                                         ELSE c.FailAccessInterval]

applyDefaults(c) ==
    [GCInitialDelay     |-> IF c.GCInitialDelay = 0 THEN DefaultGCInitialDelay
                                                    ELSE c.GCInitialDelay,
     GCMetaInterval     |-> IF c.GCMetaInterval = 0 THEN DefaultGCMetaInterval
                                                    ELSE c.GCMetaInterval,
     ExpireTime         |-> IF c.ExpireTime = 0 THEN DefaultExpireTime ELSE c.ExpireTime,
     FailAccessInterval |-> IF c.FailAccessInterval = 0 THEN DefaultFailAccessInterval
                                                        ELSE c.FailAccessInterval]

\* Config.Validate: the errors it appends, each named by the field it is about
Validate_ShortCircuit(c) ==
    IF c.GCInitialDelay < 0 THEN <<"GCInitialDelay">>
    ELSE IF c.GCMetaInterval <= 0 THEN <<"GCMetaInterval">>
    ELSE IF c.ExpireTime <= 0 THEN <<"ExpireTime">>
    ELSE IF c.FailAccessInterval <= 0 THEN <<"FailAccessInterval">>
    ELSE <<>>

Validate(c) ==
    (IF c.GCInitialDelay < 0 THEN <<"GCInitialDelay">> ELSE <<>>)
      \o (IF c.GCMetaInterval <= 0 THEN <<"GCMetaInterval">> ELSE <<>>)
      \o (IF c.ExpireTime <= 0 THEN <<"ExpireTime">> ELSE <<>>)
      \o (IF c.FailAccessInterval <= 0 THEN <<"FailAccessInterval">> ELSE <<>>)

ConfigInit ==
    /\ config \in Configs
    /\ configLog = [loaded |-> config, op |-> "none", in |-> config, out |-> config,
                    errors |-> <<>>]

\* c = c.applyDefaults()
CallApplyDefaults ==
    /\ config' = applyDefaults(config)
    /\ configLog' = [loaded |-> configLog.loaded, op |-> "applyDefaults", in |-> config,
                     out |-> config', errors |-> <<>>]
    /\ UNCHANGED nonCfgVars

\* c.Validate()
CallValidate ==
    /\ configLog' = [loaded |-> configLog.loaded, op |-> "Validate", in |-> config,
                     out |-> config, errors |-> Validate(config)]
    /\ UNCHANGED config
    /\ UNCHANGED nonCfgVars

(***************************************************************************)
(* Parked values: the parts a specification does not exercise.             *)
(***************************************************************************)
BackToSourceParked ==
    /\ backToSourceLimit = 0
    /\ backToSourcePeers = {}
    /\ btsPc = EmptyMap

MapsParked ==
    /\ taskPeers = EmptyMap
    /\ taskPieces = EmptyMap
    /\ mapLog = [peer |-> {}, piece |-> {}]
    /\ lsCall = EmptyMap

SizeScopeParked ==
    /\ contentLength = NilPtr
    /\ totalPieceCount = NilPtr
    /\ scopeResult = "none"

CdnParked ==
    /\ taskID = <<>>
    /\ directPiece = <<>>
    /\ peerManager = EmptyMap
    /\ peerHeap = EmptyMap
    /\ hostManager = EmptyMap
    /\ cdnHosts = EmptyMap
    /\ endpoint = NoAnswer
    /\ call = EmptyMap

DynconfigParked ==
    /\ cdnData = DynconfigData(<<>>)
    /\ updateState = NoUpdateState
    /\ notify = EmptyMap

GCParked ==
    /\ gcTasks = EmptyMap
    /\ gcPeers = EmptyMap
    /\ gcSweep = [n |-> 0, kind |-> "none", expire |-> 0]

ConfigParked ==
    /\ config = applyDefaults([GCInitialDelay |-> 0, GCMetaInterval |-> 0, ExpireTime |-> 0,
                               FailAccessInterval |-> 0])
    /\ configLog = [loaded |-> config, op |-> "none", in |-> config, out |-> config,
                    errors |-> <<>>]

\* the parts added to the Task and the CDN driver, all parked
RestParked == DynconfigParked /\ GCParked /\ ConfigParked

(***************************************************************************)
(* Specifications of the Task entity.                                      *)
(***************************************************************************)
InitTaskFSM ==
    TaskFSMInit /\ BackToSourceParked /\ MapsParked /\ SizeScopeParked /\ CdnParked /\ RestParked

NextTaskFSM ==
    \/ Tick
    \/ FireTaskEvent

SpecTaskFSM == InitTaskFSM /\ [][NextTaskFSM]_vars

InitBackToSource ==
    TaskFSMInit /\ BackToSourceInit /\ MapsParked /\ SizeScopeParked /\ CdnParked /\ RestParked

NextBackToSource ==
    \/ \E p \in BtsPeers : CheckBackToSource(p)
    \/ \E p \in BtsPeers : AddBackToSourcePeer(p)

SpecBackToSource == InitBackToSource /\ [][NextBackToSource]_vars

InitLoadOrStore ==
    TaskFSMInit /\ BackToSourceParked /\ LoadOrStoreInit /\ SizeScopeParked /\ CdnParked /\ RestParked

NextLoadOrStore ==
    \/ \E c \in LsCallers : CallLoadOrStorePeer(c)
    \/ \E c \in LsCallers : CallLoadOrStorePiece(c)
    \/ \E key \in PeerIDs : CallStorePeer(key)
    \/ \E key \in PeerIDs : CallDeletePeer(key)
    \/ \E key \in PieceNums : CallStorePiece(key)
    \/ \E key \in PieceNums : CallDeletePiece(key)

SpecLoadOrStore == InitLoadOrStore /\ [][NextLoadOrStore]_vars

InitSizeScope ==
    TaskFSMInit /\ BackToSourceParked /\ MapsParked /\ SizeScopeInit /\ CdnParked /\ RestParked

NextSizeScope == CallSizeScope

SpecSizeScope == InitSizeScope /\ [][NextSizeScope]_vars

(***************************************************************************)
(* Properties of the Task state machine, checked under SpecTaskFSM.        *)
(***************************************************************************)
\* a step in which t.FSM.Event was called
EventFired == lastEvent'.n # lastEvent.n

\* C1: the Task FSM starts in Pending; its only transitions are Download from
\* Pending or Failed to Running, Succeeded from Running to Succeeded, Failed
\* from Running to Failed; the task is always in one of the four states; and
\* no event moves a task out of Succeeded.
C1_OnlyLegalTransitions ==
    /\ taskState = "Pending"
    /\ [](taskState \in {"Pending", "Running", "Succeeded", "Failed"})
    /\ [][taskState' # taskState =>
            /\ EventFired
            /\ \/ lastEvent'.name = "Download" /\ taskState \in {"Pending", "Failed"}
                                               /\ taskState' = "Running"
               \/ lastEvent'.name = "Succeeded" /\ taskState = "Running"
                                                /\ taskState' = "Succeeded"
               \/ lastEvent'.name = "Failed" /\ taskState = "Running"
                                             /\ taskState' = "Failed"]_vars
    /\ [][taskState = "Succeeded" => taskState' = "Succeeded"]_vars

\* an event was fired on a task in Succeeded, and the task stayed there
C1_Witness ==
    /\ lastEvent.n > 0 /\ lastEvent.src = "Succeeded" /\ lastEvent.name = "Download"
    /\ taskState = "Succeeded"

IllegalSource(name, src) ==
    \/ name = "Download" /\ src \in {"Running", "Succeeded"}
    \/ name \in {"Succeeded", "Failed"} /\ src \in {"Pending", "Succeeded", "Failed"}

\* C2: an event fired from a source state that is not legal for it fails with
\* an error and leaves the FSM state and UpdateAt unchanged.
C2_IllegalEventRejected ==
    [][EventFired /\ IllegalSource(lastEvent'.name, taskState) =>
          /\ lastEvent'.err # "none"
          /\ taskState' = taskState
          /\ updateAt' = updateAt]_vars

\* an illegal event was rejected at a time when storing the clock would have
\* changed UpdateAt
C2_Witness ==
    /\ lastEvent.n > 0 /\ IllegalSource(lastEvent.name, lastEvent.src)
    /\ lastEvent.err = "InvalidEventError"
    /\ lastEvent.at > lastEvent.uaBefore

\* C3 as stated: every successful transition stores the current time into
\* UpdateAt, UpdateAt never decreases, and it is strictly greater after each
\* successful transition than before it.
C3_StrictlyGreater ==
    [][/\ updateAt' >= updateAt
       /\ EventFired /\ lastEvent'.err = "none" =>
            updateAt' = now /\ updateAt' > updateAt]_vars

\* C3 as amended: every successful transition stores the current time into
\* UpdateAt; UpdateAt never decreases; it is strictly greater after the
\* transition exactly when the clock has moved past the previous UpdateAt.
C3_StoresNow ==
    [][/\ updateAt' >= updateAt
       /\ EventFired /\ lastEvent'.err = "none" =>
            /\ updateAt' = now
            /\ (updateAt' > updateAt) <=> (now > updateAt)]_vars

\* a successful transition into Succeeded that moved UpdateAt forward
C3_Witness ==
    /\ lastEvent.n > 0 /\ lastEvent.err = "none" /\ lastEvent.dst = "Succeeded"
    /\ lastEvent.uaAfter > lastEvent.uaBefore
    /\ updateAt = lastEvent.uaAfter

\* C4: a task in Failed (which it reaches by Download, then Failed) accepts
\* Download again: the event succeeds and moves the task to Running.
C4_RetryFromFailed ==
    /\ [][taskState' = "Failed" /\ taskState # "Failed" =>
            lastEvent'.name = "Failed" /\ taskState = "Running"]_vars
    /\ [][taskState' = "Running" /\ taskState # "Running" =>
            lastEvent'.name = "Download"]_vars
    /\ [][EventFired /\ taskState = "Failed" /\ lastEvent'.name = "Download" =>
            lastEvent'.err = "none" /\ taskState' = "Running"]_vars

\* Download was fired on a task in Failed and the task is Running again
C4_Witness ==
    /\ lastEvent.name = "Download" /\ lastEvent.src = "Failed" /\ lastEvent.err = "none"
    /\ taskState = "Running"

(***************************************************************************)
(* Back-to-source, checked under SpecBackToSource.                         *)
(***************************************************************************)
\* C5: in every reachable state the number of peers in BackToSourcePeers is
\* at most BackToSourceLimit, also when several peers call CanBackToSource,
\* see true, and then each add themselves. (Stated for the limits a
\* configuration gives, which are not negative.)
C5_BackToSourceBounded ==
    backToSourceLimit >= 0 => Cardinality(backToSourcePeers) <= backToSourceLimit

(***************************************************************************)
(* The per-task maps, checked under SpecLoadOrStore.                       *)
(***************************************************************************)
\* the callers whose LoadOrStore call with key k has returned
LsDone(k) == {c \in LsCallers : lsCall[c].pc = "done" /\ LsKey(c) = k}

LsKeys == IF LsKind = "peer" THEN PeerIDs ELSE PieceNums

LsMap == IF LsKind = "peer" THEN taskPeers ELSE taskPieces

\* no Store and no Delete has touched key k
LsUndisturbed(k) == k \notin mapLog[LsKind]

\* C6: when several callers call LoadOrStorePeer (or LoadOrStorePiece) with
\* the same key and nothing else stores or deletes that key, all the calls
\* return the same object, exactly one call returns loaded = false, and that
\* call's argument is the object everyone gets (and the one the map holds).
C6_LoadOrStoreAtomic ==
    \A k \in LsKeys :
        LsUndisturbed(k) /\ LsDone(k) # {} =>
            /\ \A c, d \in LsDone(k) : lsCall[c].actual = lsCall[d].actual
            /\ Cardinality({c \in LsDone(k) : ~lsCall[c].loaded}) = 1
            /\ \A c \in LsDone(k) :
                 ~lsCall[c].loaded => \A d \in LsDone(k) : lsCall[d].actual = lsCall[c].arg
            /\ k \in DOMAIN LsMap
            /\ \A c \in LsDone(k) : LsMap[k] = lsCall[c].actual

\* every caller has called with one and the same key
C6_Witness ==
    \E k \in LsKeys : LsUndisturbed(k) /\ LsDone(k) = LsCallers /\ LsKind = "peer"

(***************************************************************************)
(* SizeScope, checked under SpecSizeScope.                                 *)
(***************************************************************************)
ScopeReturned == scopeResult \in {"TINY", "SMALL", "NORMAL"}

\* SizeScope returns whenever both fields are set
ScopeReturns ==
    scopeResult # "none" /\ contentLength # NilPtr /\ totalPieceCount # NilPtr => ScopeReturned

\* the thresholds, for a call that returned
ScopeThresholds ==
    ScopeReturned =>
        /\ contentLength # NilPtr
        /\ (scopeResult = "TINY") <=> (Deref(contentLength) <= 128)
        /\ Deref(contentLength) > 128 => totalPieceCount # NilPtr
        /\ (scopeResult = "SMALL") <=>
              (Deref(contentLength) > 128 /\ Deref(totalPieceCount) = 1)
        /\ (scopeResult = "NORMAL") <=>
              (Deref(contentLength) > 128 /\ Deref(totalPieceCount) # 1)
        /\ Deref(contentLength) = 128 => scopeResult = "TINY"
        /\ Deref(contentLength) = 129 /\ totalPieceCount = Ptr(1) => scopeResult = "SMALL"

\* C7 as stated: TINY exactly when ContentLength <= 128, SMALL exactly when
\* ContentLength > 128 and TotalPieceCount = 1, NORMAL otherwise; 128 gives
\* TINY, 129 with one piece gives SMALL, and TotalPieceCount = 2 gives NORMAL
\* regardless of length.
C7_TwoPiecesAlwaysNormal ==
    /\ ScopeReturns
    /\ ScopeThresholds
    /\ ScopeReturned /\ totalPieceCount = Ptr(2) => scopeResult = "NORMAL"

\* C7 as amended: the same thresholds; TotalPieceCount = 2 gives NORMAL for
\* every ContentLength above 128, and TINY for every ContentLength up to 128.
C7_SizeScopeThresholds ==
    /\ ScopeReturns
    /\ ScopeThresholds
    /\ ScopeReturned /\ totalPieceCount = Ptr(2) =>
          scopeResult = (IF Deref(contentLength) > 128 THEN "NORMAL" ELSE "TINY")

\* two pieces at the tiny boundary: TINY
C7_Witness ==
    scopeResult = "TINY" /\ contentLength = Ptr(128) /\ totalPieceCount = Ptr(2)

(***************************************************************************)
(* The CDN driver with one caller.                                         *)
(***************************************************************************)
Init ==
    TaskFSMInit /\ BackToSourceParked /\ SizeScopeParked /\ CdnInit /\ RestParked
    /\ taskPeers = EmptyMap /\ mapLog = [peer |-> {}, piece |-> {}] /\ lsCall = EmptyMap

Next ==
    \/ \E c \in DOMAIN call : ObtainSeeds(c)
    \/ \E c \in DOMAIN call : RecvError(c)
    \/ \E c \in DOMAIN call : RecvPiece(c)
    \/ \E c \in DOMAIN call : InitPeerLoad(c)
    \/ \E c \in DOMAIN call : InitPeerHost(c)
    \/ \E c \in DOMAIN call : InitPeerStore(c)
    \/ \E c \in DOMAIN call : RunPeer(c)
    \/ \E c \in DOMAIN call : FinishPeer(c)
    \/ \E c \in DOMAIN call : DownloadTinyFile(c)
    \/ \E c \in DOMAIN call : SetPieceBit(c)
    \/ \E c \in DOMAIN call : StorePieceInfo(c)

Spec == Init /\ [][Next]_vars

(***************************************************************************)
(* Properties of TriggerTask, checked under Spec.                          *)
(***************************************************************************)
\* the call of c has returned, and the last event it received was terminal
ReturnedAfterDone(c) == call[c].pc = "returned" /\ call[c].piece.Done

\* the seeder of the call was not in the peer manager when the call began
FreshSeeder(c) == call[c].piece.PeerId \notin call[c].pre.peers

\* the host of the seeder was in the host manager when the call began, or is
\* in the CDN client's host table
HostKnown(c) == call[c].piece.HostUuid \in call[c].pre.hosts \cup DOMAIN cdnHosts

\* the seeder peer of the call is in the peer manager, in state Finished
SeederFinished(c) ==
    /\ call[c].piece.PeerId \in DOMAIN peerManager
    /\ peerHeap[peerManager[call[c].piece.PeerId]].state = "Finished"

\* C8: when the stream yields piece-events and then a terminal event with
\* ContentLength > 128 (for a seeder new to the peer manager, on a known
\* host), TriggerTask returns without error: the call has stored exactly one
\* peer, the seeder, which is Finished and is the peer returned; task.Pieces
\* holds exactly the piece numbers of the non-terminal events (besides what it
\* held before the call); the result carries the terminal event's
\* TotalPieceCount and ContentLength; task.DirectPiece is as it was (empty for
\* a task that had none).
C8_NormalTaskTriggered ==
    \A c \in DOMAIN call :
        ReturnedAfterDone(c) /\ call[c].piece.ContentLength > 128 =>
            /\ (call[c].err = "none") <=> (FreshSeeder(c) /\ HostKnown(c))
            /\ call[c].err = "none" =>
                 /\ DOMAIN peerManager = call[c].pre.peers \cup {call[c].piece.PeerId}
                 /\ Cardinality(DOMAIN peerManager) = Cardinality(call[c].pre.peers) + 1
                 /\ call[c].retPeer = peerManager[call[c].piece.PeerId]
                 /\ SeederFinished(c)
                 /\ DOMAIN taskPieces = call[c].pre.pieces \cup call[c].recvNums
                 /\ call[c].result = <<[TotalPieceCount |-> call[c].piece.TotalPieceCount,
                                        ContentLength |-> call[c].piece.ContentLength]>>
                 /\ directPiece = call[c].pre.directPiece

\* the happy path of a first call: two pieces, then Done with 129 bytes
C8_Witness ==
    \E c \in DOMAIN call :
        /\ ReturnedAfterDone(c) /\ call[c].err = "none"
        /\ call[c].n = 1 /\ call[c].piece.ContentLength = 129
        /\ call[c].recvNums = {0, 1} /\ DOMAIN taskPieces = {0, 1}
        /\ Cardinality(DOMAIN peerManager) = 1 /\ directPiece = <<>>

\* C9: when the terminal event has ContentLength <= 128 and the tiny-file
\* endpoint returns a body of that length (for a seeder new to the peer
\* manager, on a known host), TriggerTask succeeds and task.DirectPiece is
\* that body, whatever the task ID, IDs shorter than three characters
\* included.
C9_TinyFileCached ==
    \A c \in DOMAIN call :
        /\ call[c].pc \in {"returned", "panicked"} /\ call[c].piece.Done
        /\ call[c].piece.ContentLength <= 128
        /\ FreshSeeder(c) /\ HostKnown(c)
        /\ endpoint.kind = "body" /\ endpoint.len = call[c].piece.ContentLength
        => /\ call[c].pc = "returned"
           /\ call[c].err = "none"
           /\ directPiece = <<endpoint>>

\* C10: when the terminal event has ContentLength <= 128 and the body fetched
\* has another length (shorter or longer), TriggerTask returns an error,
\* task.DirectPiece is as it was before the call, and the seeder peer stays
\* in the peer manager in state Finished.
C10_TinyLengthMismatch ==
    \A c \in DOMAIN call :
        /\ ReturnedAfterDone(c) /\ call[c].piece.ContentLength <= 128
        /\ call[c].data # <<>> /\ call[c].data[1].len # call[c].piece.ContentLength
        => /\ call[c].err = "TinyFileLengthMismatch"
           /\ call[c].retPeer = 0 /\ call[c].result = NoResult
           /\ directPiece = call[c].pre.directPiece
           /\ SeederFinished(c)

\* a second call fetched a body one byte short while task.DirectPiece held
\* the body of the first call
C10_Witness ==
    \E c \in DOMAIN call :
        /\ ReturnedAfterDone(c) /\ call[c].piece.ContentLength = 128
        /\ call[c].data # <<>> /\ call[c].data[1].len = 127
        /\ call[c].err # "none"
        /\ call[c].pre.directPiece # <<>> /\ directPiece # <<>>

\* the first event of the call named a seeder that is not in the peer manager
\* and a host that is in neither the host manager nor the client's host table
UnknownHost(c) == call[c].nrecv >= 1 /\ FreshSeeder(c) /\ ~HostKnown(c)

\* the call of c is under way
InCall(c) == call[c].pc \notin {"idle", "returned", "panicked"}

\* C11: when the first piece-event names a PeerId that is not in the peer
\* manager and a HostUuid that is in neither the host manager nor the CDN
\* client's host table, TriggerTask fails with the host-not-found error, and
\* the peer manager and the host manager hold exactly what they held before
\* the call: no step of the call stores a peer or a host.
C11_UnknownHostFails ==
    /\ [](\A c \in DOMAIN call :
            call[c].pc = "returned" /\ UnknownHost(c) =>
                /\ call[c].err = "HostNotFound"
                /\ call[c].retPeer = 0 /\ call[c].result = NoResult
                /\ DOMAIN peerManager = call[c].pre.peers
                /\ DOMAIN hostManager = call[c].pre.hosts)
    /\ [][\A c \in DOMAIN call :
            InCall(c) /\ UnknownHost(c) =>
                /\ peerManager' = peerManager
                /\ hostManager' = hostManager
                /\ peerHeap' = peerHeap]_vars

\* a second call named an unknown host while the managers held the peer and
\* the host of the first call
C11_Witness ==
    \E c \in DOMAIN call :
        /\ call[c].pc = "returned" /\ UnknownHost(c) /\ call[c].err = "HostNotFound"
        /\ call[c].piece.HostUuid = "ghost"
        /\ call[c].pre.peers # {} /\ DOMAIN peerManager = call[c].pre.peers
        /\ DOMAIN hostManager = {"h1"}

\* C12: when stream.Recv fails after at least one piece-event was processed,
\* TriggerTask returns that error at once (it reads no further event and opens
\* no new stream), the seeder peer stays in the peer manager in state Running,
\* and the pieces stored so far stay in task.Pieces.
C12_StreamFailureSurfaced ==
    /\ [](\A c \in DOMAIN call :
            call[c].pc = "returned" /\ call[c].err = "StreamRecvFailed" /\ call[c].nrecv >= 1 =>
                /\ call[c].retPeer = 0 /\ call[c].result = NoResult
                /\ call[c].piece.PeerId \in DOMAIN peerManager
                /\ peerHeap[peerManager[call[c].piece.PeerId]].state = "Running"
                /\ DOMAIN taskPieces = call[c].pre.pieces \cup call[c].recvNums
                /\ directPiece = call[c].pre.directPiece)
    /\ [][\A c \in DOMAIN call :
            call[c].pc = "recv" /\ call'[c].err = "StreamRecvFailed" =>
                /\ call'[c].pc = "returned"
                /\ call'[c].n = call[c].n /\ call'[c].nrecv = call[c].nrecv
                /\ peerManager' = peerManager /\ peerHeap' = peerHeap
                /\ taskPieces' = taskPieces]_vars

\* the stream failed after two pieces were stored
C12_Witness ==
    \E c \in DOMAIN call :
        /\ call[c].pc = "returned" /\ call[c].err = "StreamRecvFailed"
        /\ call[c].nrecv = 2 /\ call[c].recvNums = {0, 1} /\ DOMAIN taskPieces = {0, 1}
        /\ peerHeap[peerManager[call[c].piece.PeerId]].state = "Running"

(***************************************************************************)
(* The CDN client under dynamic-config notifications, one at a time.       *)
(***************************************************************************)
\* the driver's own state, parked
DriverParked ==
    /\ taskID = <<>>
    /\ directPiece = <<>>
    /\ peerManager = EmptyMap
    /\ peerHeap = EmptyMap
    /\ hostManager = EmptyMap
    /\ endpoint = NoAnswer
    /\ call = EmptyMap

InitDynconfig ==
    TaskFSMInit /\ BackToSourceParked /\ MapsParked /\ SizeScopeParked /\ DriverParked
    /\ DynconfigInit /\ GCParked /\ ConfigParked

NextDynconfig ==
    \/ \E k \in DOMAIN notify : OnNotify(k)
    \/ \E k \in DOMAIN notify : OnNotifyLocked(k)

SpecDynconfig == InitDynconfig /\ [][NextDynconfig]_vars

\* the host ids of a CDN list
HostIdsOf(cdns) == {<<cdns[i].HostName, cdns[i].Port>> : i \in 1..Len(cdns)}

\* C13: a notification whose data deep-equals the cached data leaves the host
\* table (and the cached data) unchanged and calls UpdateState not at all; a
\* notification with other data replaces the host table by the hosts of the
\* new CDN list (the hosts of CDNs no longer listed are absent, those of the
\* listed CDNs present), stores the new data, and calls UpdateState with the
\* new addresses exactly once.
C13_DynconfigRefresh ==
    /\ [][\A k \in DOMAIN notify :
            notify'[k].n # notify[k].n =>
                /\ cdnHosts' = cdnHosts /\ cdnData' = cdnData /\ updateState' = updateState
                /\ notify'[k].pc = (IF notify'[k].data = cdnData THEN "done" ELSE "lock")]_vars
    /\ [][\A k \in DOMAIN notify :
            notify[k].pc = "lock" /\ notify'[k].pc = "done" =>
                LET cdns == notify[k].data.CDNs IN
                /\ cdnData' = notify[k].data
                /\ DOMAIN cdnHosts' = HostIdsOf(cdns)
                /\ \A id \in DOMAIN cdnHosts' : cdnHosts'[id].ID = id /\ cdnHosts'[id].IsCDN
                /\ \A id \in DOMAIN cdnHosts \ HostIdsOf(cdns) : ~LoadHost(cdnHosts', id).ok
                /\ updateState'.count = updateState.count + 1
                /\ Len(updateState'.addrs) = Len(cdns)
                /\ \A i \in 1..Len(cdns) :
                     updateState'.addrs[i].Addr = <<cdns[i].IP, cdns[i].Port>>]_vars
    /\ [](\A k \in DOMAIN notify :
            notify[k].pc = "done" =>
                notify[k].calls = (IF notify[k].equal THEN 0 ELSE 1))

\* a first notification repeated the cached list and a second one carried
\* [A, C]: the hosts are those of A and C and of no other CDN, and UpdateState
\* was called once, with the addresses of A and C
C13_Witness ==
    /\ notify[1].n = 2 /\ notify[1].pc = "done" /\ ~notify[1].equal
    /\ cdnData.CDNs = <<CdnA, CdnC>>
    /\ DOMAIN cdnHosts = {<<"a", 8001>>, <<"c", 8001>>}
    /\ updateState.count = 1
    /\ updateState.addrs = cdnsToNetAddrs(<<CdnA, CdnC>>)

(***************************************************************************)
(* The managers under the GC sweep.                                        *)
(***************************************************************************)
InitGC ==
    TaskFSMInit /\ BackToSourceParked /\ MapsParked /\ SizeScopeParked /\ CdnParked
    /\ DynconfigParked /\ GCInit /\ ConfigParked

NextGC ==
    \/ Tick
    \/ \E id \in GcTaskIDs, event \in TaskEventInputs : GcTaskEvent(id, event)
    \/ \E id \in GcPeerIDs, event \in FSMEventNames(PeerFSMEvents) : GcPeerEvent(id, event)
    \/ RunGCTasks
    \/ RunGCPeers

SpecGC == InitGC /\ [][NextGC]_vars

\* what a sweep at time t with expiry expire, over the entries `before`, has
\* left in `after`: the entries that are terminal and expired are gone, every
\* other entry is there as it was, and nothing else is
Swept(before, after, terminal, expire, t) ==
    /\ DOMAIN after \subseteq DOMAIN before
    /\ \A id \in DOMAIN before :
         IF before[id].state \in terminal /\ before[id].UpdateAt + expire < t
           THEN id \notin DOMAIN after
           ELSE id \in DOMAIN after /\ after[id] = before[id]

\* C14: after a GC sweep at time t with expiry D, every entity in a terminal
\* state (Succeeded or Failed for tasks, Finished or Failed for peers) with
\* UpdateAt + D < t is absent from its manager, and every entity that is not
\* terminal, or not yet expired, is still present.
C14_SweepReapsExpiredTerminal ==
    /\ [][gcSweep'.n # gcSweep.n /\ gcSweep'.kind = "task" =>
            /\ Swept(gcTasks, gcTasks', {"Succeeded", "Failed"}, gcSweep.expire, now)
            /\ gcPeers' = gcPeers]_vars
    /\ [][gcSweep'.n # gcSweep.n /\ gcSweep'.kind = "peer" =>
            /\ Swept(gcPeers, gcPeers', {"Finished", "Failed"}, gcSweep.expire, now)
            /\ gcTasks' = gcTasks]_vars

\* a task sweep has removed t1 and kept t2, which is Running and as stale as
\* an expired task is
C14_Witness ==
    /\ gcSweep.n > 0 /\ gcSweep.kind = "task"
    /\ "t1" \notin DOMAIN gcTasks
    /\ "t2" \in DOMAIN gcTasks
    /\ gcTasks["t2"].state = "Running"
    /\ gcTasks["t2"].UpdateAt + gcSweep.expire < now

(***************************************************************************)
(* The task Config: applyDefaults and Validate on every bounded input.     *)
(***************************************************************************)
InitConfig ==
    TaskFSMInit /\ BackToSourceParked /\ MapsParked /\ SizeScopeParked /\ CdnParked
    /\ DynconfigParked /\ GCParked /\ ConfigInit

NextConfig ==
    \/ CallApplyDefaults
    \/ CallValidate

SpecConfig == InitConfig /\ [][NextConfig]_vars

ConfigFields == {"GCInitialDelay", "GCMetaInterval", "ExpireTime", "FailAccessInterval"}

\* the rule of a field is violated: GCInitialDelay >= 0, the others > 0
RuleViolated(c, f) == IF f = "GCInitialDelay" THEN c[f] < 0 ELSE c[f] <= 0

\* C15: Validate returns exactly one error per violated rule among
\* GCInitialDelay >= 0, GCMetaInterval > 0, ExpireTime > 0 and
\* FailAccessInterval > 0, whatever the other fields are, and no error when
\* all four hold; GCInitialDelay = 0 gives no error, GCMetaInterval = 0 one.
C15_ValidateAccumulates ==
    configLog.op = "Validate" =>
        LET errs == configLog.errors
            c    == configLog.in
        IN  /\ \A i \in 1..Len(errs) : errs[i] \in ConfigFields
            /\ \A f \in ConfigFields :
                 Cardinality({i \in 1..Len(errs) : errs[i] = f}) =
                     (IF RuleViolated(c, f) THEN 1 ELSE 0)
            /\ (\A f \in ConfigFields : ~RuleViolated(c, f)) => errs = <<>>
            /\ c.GCInitialDelay = 0 => \A i \in 1..Len(errs) : errs[i] # "GCInitialDelay"
            /\ c.GCMetaInterval = 0 => \E i \in 1..Len(errs) : errs[i] = "GCMetaInterval"

\* a Config that breaks all four rules got four errors
C15_Witness ==
    /\ configLog.op = "Validate" /\ Len(configLog.errors) = 4
    /\ configLog.in.GCInitialDelay < 0 /\ configLog.in.GCMetaInterval = 0

\* the default of each field, in seconds: 6 s, 2 min, 30 min, 3 min
DefaultOf(f) ==
    CASE f = "GCInitialDelay"     -> 6
      [] f = "GCMetaInterval"     -> 2 * 60
      [] f = "ExpireTime"         -> 30 * 60
      [] f = "FailAccessInterval" -> 3 * 60

NextCancel ==
    \/ \E c \in DOMAIN call : ObtainSeeds(c)
    \/ \E c \in DOMAIN call : RecvError(c)
    \/ \E c \in DOMAIN call : RecvPiece(c)
    \/ \E c \in DOMAIN call : InitPeerLoad(c)
    \/ \E c \in DOMAIN call : InitPeerHost(c)
    \/ \E c \in DOMAIN call : InitPeerStore(c)
    \/ \E c \in DOMAIN call : RunPeer(c)
    \/ \E c \in DOMAIN call : FinishPeer(c)
    \/ \E c \in DOMAIN call : CancelContext(c)
    \/ \E c \in DOMAIN call : DownloadTinyFile(c)
    \/ \E c \in DOMAIN call : SetPieceBit(c)
    \/ \E c \in DOMAIN call : StorePieceInfo(c)

SpecCancel == Init /\ [][NextCancel]_vars

\* C17: when the context passed to TriggerTask is cancelled after the terminal
\* event of a tiny task (ContentLength <= 128) was received and before the
\* tiny-file GET completes, TriggerTask returns an error and stores no body
\* into task.DirectPiece.
C17_CancelAbortsTinyGet ==
    \A c \in DOMAIN call :
        /\ call[c].pc = "returned" /\ call[c].piece.Done
        /\ call[c].piece.ContentLength <= 128
        /\ call[c].ctx = "cancelled"
        => /\ call[c].err # "none"
           /\ directPiece = call[c].pre.directPiece

(***************************************************************************)
(* CanBackToSource as a function, checked under SpecBackToSource.          *)
(***************************************************************************)
\* the peers whose CanBackToSource call returns in this step
BtsAnswered == {p \in BtsPeers : btsPc[p] = "idle" /\ btsPc'[p] # "idle"}

\* C18: CanBackToSource returns true exactly when BackToSourcePeers holds
\* strictly fewer peers than BackToSourceLimit; with a limit of 0 or less it
\* returns false in every state, whatever the set holds.
C18_CanBackToSourceBelowLimit ==
    /\ [][\A p \in BtsAnswered :
            (btsPc'[p] = "allowed") <=> (Cardinality(backToSourcePeers) < backToSourceLimit)]_vars
    /\ [](backToSourceLimit <= 0 =>
            /\ \A p \in BtsPeers : btsPc[p] \in {"idle", "denied"}
            /\ \A peers \in SUBSET BtsPeers : ~CanBackToSource(peers, backToSourceLimit))

\* with limit 2 and two peers in the set, a third peer asked and was refused
C18_Witness ==
    /\ backToSourceLimit = 2
    /\ Cardinality(backToSourcePeers) = 2
    /\ \E p \in BtsPeers : p \notin backToSourcePeers /\ btsPc[p] = "denied"

(***************************************************************************)
(* More properties of TriggerTask, checked under Spec.                     *)
(***************************************************************************)
\* C19: pieces are immutable once stored: when the stream (of this call or of
\* a later call for the task) yields a second piece-event with a piece number
\* that task.Pieces already holds, the piece-info under that number stays the
\* one stored first.
C19_PiecesImmutable ==
    [][\A num \in DOMAIN taskPieces :
          num \in DOMAIN taskPieces' /\ taskPieces'[num] = taskPieces[num]]_vars

\* the first event of the call named a seeder that was in the peer manager
\* when the call began
ReusedSeeder(c) == call[c].nrecv >= 1 /\ ~FreshSeeder(c)

\* C20: when the first piece-event names a PeerId that is in the peer manager,
\* TriggerTask takes that peer and creates none; it fires Running on it, and
\* as an earlier trigger has left the peer in Finished or in Running, the peer
\* FSM rejects the event: the call fails with the illegal-peer-state error and
\* the peer, its state included, is as it was.
C20_SeederPeerReused ==
    /\ [](\A c \in DOMAIN call :
            ReusedSeeder(c) /\ call[c].pc = "run" =>
                call[c].peer = peerManager[call[c].piece.PeerId])
    /\ [](\A c \in DOMAIN call :
            ReusedSeeder(c) /\ call[c].pc = "returned" =>
                /\ call[c].err = "IllegalPeerState"
                /\ call[c].retPeer = 0 /\ call[c].result = NoResult
                /\ DOMAIN peerManager = call[c].pre.peers
                /\ peerHeap[peerManager[call[c].piece.PeerId]].state \in {"Running", "Finished"})
    /\ [][\A c \in DOMAIN call :
            InCall(c) /\ ReusedSeeder(c) =>
                /\ peerManager' = peerManager
                /\ peerHeap' = peerHeap
                /\ hostManager' = hostManager]_vars

\* a second trigger named the seeder the first one left in Finished
C20_Witness ==
    \E c \in DOMAIN call :
        /\ call[c].n = 2 /\ call[c].pc = "returned" /\ ReusedSeeder(c)
        /\ call[c].err = "IllegalPeerState"
        /\ peerHeap[peerManager[call[c].piece.PeerId]].state = "Finished"
        /\ Cardinality(DOMAIN peerHeap) = 1

(***************************************************************************)
(* One TriggerTask call on a task its caller has driven to any state, with *)
(* SizeScope read before, during and after the call.                       *)
(***************************************************************************)
\* the task at the clock reading of its construction, in any state its
\* caller's events have taken it to
TriggeredTaskInit ==
    /\ now = 0
    /\ createAt = 0
    /\ updateAt = 0
    /\ taskState \in {TaskStatePending, TaskStateRunning, TaskStateSucceeded, TaskStateFailed}
    /\ lastEvent = NoEvent

\* the two fields as NewTask leaves them, or as a caller has set them
TriggeredScopeInit ==
    /\ contentLength \in {NilPtr, Ptr(TinyFileSize)}
    /\ totalPieceCount \in {NilPtr, Ptr(1)}
    /\ scopeResult = "none"

\* a host the host manager has kept from an earlier CDN list: the CDN client
\* holds a newer Host object for the same uuid
OldHost(uuid) == [ID |-> uuid, IsCDN |-> TRUE, IP |-> "10.0.0.9"]

\* the driver before the last call the caller makes: the calls before it all
\* failed in ObtainSeeds, which changes nothing
TriggerCdnInit ==
    /\ taskID \in TaskIDs
    /\ directPiece = <<>>
    /\ peerManager = EmptyMap
    /\ peerHeap = EmptyMap
    /\ hostManager \in {EmptyMap, [u \in {"h1"} |-> OldHost(u)]}
    /\ cdnHosts = [u \in {"h1"} |-> Host(u)]
    /\ endpoint = NoAnswer
    /\ taskPieces = EmptyMap
    /\ call = [c \in {1} |-> [IdleCall EXCEPT !.n = MaxCalls - 1]]

InitTrigger ==
    TriggeredTaskInit /\ BackToSourceParked /\ TriggeredScopeInit /\ TriggerCdnInit
    /\ RestParked
    /\ taskPeers = EmptyMap /\ mapLog = [peer |-> {}, piece |-> {}] /\ lsCall = EmptyMap

NextTrigger ==
    \/ \E c \in DOMAIN call : ObtainSeeds(c)
    \/ \E c \in DOMAIN call : RecvError(c)
    \/ \E c \in DOMAIN call : RecvPiece(c)
    \/ \E c \in DOMAIN call : InitPeerLoad(c)
    \/ \E c \in DOMAIN call : InitPeerHost(c)
    \/ \E c \in DOMAIN call : InitPeerStore(c)
    \/ \E c \in DOMAIN call : RunPeer(c)
    \/ \E c \in DOMAIN call : FinishPeer(c)
    \/ \E c \in DOMAIN call : DownloadTinyFile(c)
    \/ \E c \in DOMAIN call : SetPieceBit(c)
    \/ \E c \in DOMAIN call : StorePieceInfo(c)
    \/ CallSizeScope

SpecTrigger == InitTrigger /\ [][NextTrigger]_vars

\* C21: TriggerTask fires no event on the Task FSM: whatever the stream does
\* (success, tiny-file success or mismatch, unknown host, stream error), no
\* step of the call changes the task's FSM state or its UpdateAt, while the
\* seeder peer's FSM is driven.
C21_TaskFsmUntouched ==
    [][taskState' = taskState /\ updateAt' = updateAt]_vars

\* the call drove its seeder to Finished on a task that is Running
C21_Witness ==
    \E c \in DOMAIN call :
        /\ ReturnedAfterDone(c) /\ call[c].err = "none"
        /\ SeederFinished(c)
        /\ taskState = "Running"

\* C22: for a new seeder peer the host manager is asked first and the CDN
\* client's host table only when it has no host for piece.HostUuid; a host
\* found only in the client's table is stored into the host manager before
\* the peer is created; so whenever initPeer has created and stored a peer,
\* the host manager holds that peer's host under piece.HostUuid.
C22_HostResolvedBeforePeer ==
    /\ [][\A c \in DOMAIN call :
            call[c].pc = "initHost" /\ call'[c].pc # "initHost" =>
                LET uuid == call[c].piece.HostUuid IN
                /\ peerManager' = peerManager /\ peerHeap' = peerHeap
                /\ IF uuid \in DOMAIN hostManager
                     THEN hostManager' = hostManager /\ call'[c].pc = "initStore"
                     ELSE IF uuid \in DOMAIN cdnHosts
                       THEN /\ DOMAIN hostManager' = DOMAIN hostManager \cup {uuid}
                            /\ hostManager'[uuid] = cdnHosts[uuid]
                            /\ \A u \in DOMAIN hostManager : hostManager'[u] = hostManager[u]
                            /\ call'[c].pc = "initStore"
                       ELSE /\ hostManager' = hostManager
                            /\ call'[c].err = "HostNotFound"]_vars
    /\ [](\A c \in DOMAIN call :
            call[c].pc = "initStore" => call[c].piece.HostUuid \in DOMAIN hostManager)
    /\ [](\A c \in DOMAIN call :
            call[c].nrecv >= 1 /\ FreshSeeder(c) /\ call[c].piece.PeerId \in DOMAIN peerManager =>
                /\ peerHeap[peerManager[call[c].piece.PeerId]].Host = call[c].piece.HostUuid
                /\ call[c].piece.HostUuid \in DOMAIN hostManager)

\* the host was only in the client's table: it is in the host manager now,
\* and the new peer is stored
C22_Witness ==
    \E c \in DOMAIN call :
        /\ call[c].pre.hosts = {} /\ FreshSeeder(c)
        /\ call[c].piece.PeerId \in DOMAIN peerManager
        /\ peerHeap[peerManager[call[c].piece.PeerId]].Host = "h1"
        /\ DOMAIN hostManager = {"h1"} /\ hostManager["h1"] = cdnHosts["h1"]

\* C25: TriggerTask writes neither task.ContentLength nor
\* task.TotalPieceCount: no step of a call, successful or failed, changes
\* either field, so SizeScope answers after the call what it answered before
\* it; the ContentLength and TotalPieceCount of the terminal event are only
\* returned in the result.
C25_LengthFieldsUntouched ==
    /\ [][contentLength' = contentLength /\ totalPieceCount' = totalPieceCount]_vars
    /\ [][scopeResult # "none" => scopeResult' = scopeResult]_vars
    /\ [](scopeResult # "none" => scopeResult = SizeScope(contentLength, totalPieceCount))

\* SizeScope says TINY of a task whose trigger returned 129 bytes in 2 pieces
C25_Witness ==
    \E c \in DOMAIN call :
        /\ ReturnedAfterDone(c) /\ call[c].err = "none"
        /\ call[c].result = <<[TotalPieceCount |-> 2, ContentLength |-> 129]>>
        /\ contentLength = Ptr(128) /\ scopeResult = "TINY"

(***************************************************************************)
(* Two concurrent TriggerTask calls for one task, each followed from its   *)
(* start to the end of `if !initialized` (cdn.go lines 73-109): initPeer   *)
(* and the Running event.                                                  *)
(***************************************************************************)
\* two callers, each about to make one call, on a task with a long id
ConcurrentCdnInit ==
    /\ taskID = <<"t", "1", "a", "b">>
    /\ directPiece = <<>>
    /\ peerManager = EmptyMap
    /\ peerHeap = EmptyMap
    /\ hostManager = EmptyMap
    /\ cdnHosts = [u \in {"h1"} |-> Host(u)]
    /\ endpoint = NoAnswer
    /\ taskPieces = EmptyMap
    /\ call = [c \in {1, 2} |-> [IdleCall EXCEPT !.n = MaxCalls - 1]]

InitConcurrent ==
    TaskFSMInit /\ BackToSourceParked /\ SizeScopeParked /\ ConcurrentCdnInit /\ RestParked
    /\ taskPeers = EmptyMap /\ mapLog = [peer |-> {}, piece |-> {}] /\ lsCall = EmptyMap

NextConcurrent ==
    \/ \E c \in DOMAIN call : ObtainSeeds(c)
    \/ \E c \in DOMAIN call : RecvError(c)
    \/ \E c \in DOMAIN call : RecvPiece(c)
    \/ \E c \in DOMAIN call : InitPeerLoad(c)
    \/ \E c \in DOMAIN call : InitPeerHost(c)
    \/ \E c \in DOMAIN call : InitPeerStore(c)
    \/ \E c \in DOMAIN call : RunPeer(c)

SpecConcurrent == InitConcurrent /\ [][NextConcurrent]_vars

\* the call of c has its seeder peer in hand
HasPeer(c) == call[c].peer # 0

\* C23: at most one seeder Peer object is in use per PeerId: when two
\* concurrent calls got first piece-events with the same PeerId, which the
\* peer manager did not hold before, both calls work on the same Peer
\* object, and that object is the one the peer manager holds.
C23_OnePeerPerId ==
    \A c, d \in DOMAIN call :
        /\ HasPeer(c) /\ HasPeer(d)
        /\ call[c].piece.PeerId = call[d].piece.PeerId
        /\ FreshSeeder(c) /\ FreshSeeder(d)
        => /\ call[c].peer = call[d].peer
           /\ peerManager[call[c].piece.PeerId] = call[c].peer

\* C24: the seeder peer's piece bitmap never runs ahead of the task's piece
\* map: in every state of a TriggerTask call, the states between two
\* statements included, every piece number whose bit is set in a seeder
\* peer's Pieces is a key of task.Pieces.
C24_BitmapWithinPieces ==
    \A inst \in DOMAIN peerHeap : peerHeap[inst].Pieces \subseteq DOMAIN taskPieces

(***************************************************************************)
(* Two concurrent OnNotify calls on one CDN client.                        *)
(***************************************************************************)
\* newCDNClient, and two callers of OnNotify that are notified once each
ConcurrentDynconfigInit ==
    /\ \E cdns \in CdnLists :
        /\ cdnData = DynconfigData(cdns)
        /\ cdnHosts = cdnsToHosts(cdns)
    /\ updateState = NoUpdateState
    /\ notify = [k \in {1, 2} |-> [IdleNotify EXCEPT !.n = MaxNotifies - 1]]

InitConcurrentNotify ==
    TaskFSMInit /\ BackToSourceParked /\ MapsParked /\ SizeScopeParked /\ DriverParked
    /\ ConcurrentDynconfigInit /\ GCParked /\ ConfigParked

NextConcurrentNotify ==
    \/ \E k \in DOMAIN notify : OnNotify(k)
    \/ \E k \in DOMAIN notify : OnNotifyLocked(k)

SpecConcurrentNotify == InitConcurrentNotify /\ [][NextConcurrentNotify]_vars

\* C26: under any interleaving of concurrent OnNotify calls, UpdateState is
\* called exactly once per actual change of the cached dynconfig data: a
\* step calls UpdateState (once) when it changes the cached data, and not
\* at all when it leaves the cached data as it was, so that two concurrent
\* notifications with the same new data make one call, not two.
C26_UpdateStateOncePerChange ==
    [][updateState'.count =
           updateState.count + (IF cdnData' # cdnData THEN 1 ELSE 0)]_vars
====
